---------------------------- MODULE Spec2Model ----------------------------
(***************************************************************************)
(* Model of the Feishu media tools (src/src/media-tools.ts): the six tool  *)
(* entry points registered by registerFeishuMediaTools, the do* pipelines  *)
(* they call, and the json / errResult envelope builders.  The file holds  *)
(* two definitions of the tools (lines 1-347 and 349-773); both are        *)
(* modelled, selected by the parameter def.                                *)
(*                                                                         *)
(* JavaScript strings that the code takes apart (paths, file names, the    *)
(* data URL) are sequences of one-character strings; texts that are only   *)
(* concatenated and compared (messages, summaries) are TLA+ strings.       *)
(***************************************************************************)
EXTENDS Integers, Sequences, FiniteSets, TLC

VARIABLES inv, home, cred, rs, reg, ob

vars == <<inv, home, cred, rs, reg, ob>>

(***************************************************************************)
(* Bounds of the model.                                                    *)
(***************************************************************************)
\* longest buffer drawn exhaustively for a download reply
MaxBuf == 2
\* longest path / HOME value drawn exhaustively for the Path Resolver
MaxPathLen == 3

(***************************************************************************)
(* JavaScript values.                                                      *)
(***************************************************************************)
Undef == [t |-> "undefined"]
Str(s) == [t |-> "string", v |-> s]
Num(n) == [t |-> "number", v |-> n]

\* ToBoolean, as used by !x and x || y
Truthy(x) ==
  CASE x.t = "undefined" -> FALSE
    [] x.t = "string" -> x.v # <<>>
    [] x.t = "number" -> x.v # 0
    [] OTHER -> TRUE

\* a || b
OrElse(a, b) == IF Truthy(a) THEN a ELSE b

\* a ?? b
Coalesce(a, b) == IF a.t = "undefined" THEN b ELSE a

\* destructuring default: { x = d } = params
Default(a, d) == IF a.t = "undefined" THEN d ELSE a

RECURSIVE ToStr(_)
\* the text of a character sequence
ToStr(s) == IF s = <<>> THEN "" ELSE Head(s) \o ToStr(Tail(s))

Digits == <<"0", "1", "2", "3", "4", "5", "6", "7", "8", "9">>

RECURSIVE NumStr(_)
\* Number.prototype.toString of a non-negative integer, as a template literal gives it
NumStr(n) == IF n < 10 THEN Digits[n + 1] ELSE NumStr(n \div 10) \o Digits[(n % 10) + 1]

\* String(v), and v inside a template literal
JsString(x) ==
  CASE x.t = "undefined" -> "undefined"
    [] x.t = "string" -> ToStr(x.v)
    [] x.t = "number" -> NumStr(x.v)
    [] OTHER -> "[object Object]"

StartsWith(s, c) == Len(s) > 0 /\ s[1] = c

Contains(s, c) == \E i \in 1..Len(s) : s[i] = c

\* the sequences over alphabet A of length at most n
SeqsUpTo(A, n) == UNION {[1..k -> A] : k \in 0..n}

(***************************************************************************)
(* Path Resolver: String.prototype.replace with a string pattern replaces  *)
(* the first occurrence only, and expands the patterns $$, $& and $' of    *)
(* the replacement text (the fourth pattern, the text before the match,    *)
(* needs the grave accent, which the alphabets here leave out; that text   *)
(* is empty for a match at the first character).                           *)
(***************************************************************************)
RECURSIVE ExpandReplacement(_, _, _, _)
ExpandReplacement(repl, matched, before, after) ==
  IF repl = <<>> THEN <<>>
  ELSE IF Head(repl) = "$" /\ Len(repl) >= 2
    THEN LET c == repl[2]
             rest == ExpandReplacement(SubSeq(repl, 3, Len(repl)), matched, before, after)
         IN CASE c = "$" -> <<"$">> \o rest
              [] c = "&" -> matched \o rest
              [] c = "'" -> after \o rest
              [] OTHER -> <<"$">> \o ExpandReplacement(Tail(repl), matched, before, after)
    ELSE <<Head(repl)>> \o ExpandReplacement(Tail(repl), matched, before, after)

\* index of the first occurrence of character c in s, 0 when there is none
IndexOf(s, c) ==
  IF Contains(s, c) THEN CHOOSE i \in 1..Len(s) : s[i] = c /\ \A j \in 1..(i - 1) : s[j] # c
  ELSE 0

\* s.replace(c, repl) for a one-character string pattern c
ReplaceFirst(s, c, repl) ==
  LET i == IndexOf(s, c)
  IN IF i = 0 THEN s
     ELSE LET before == SubSeq(s, 1, i - 1)
              after == SubSeq(s, i + 1, Len(s))
          IN before \o ExpandReplacement(repl, <<c>>, before, after) \o after

\* a mutant of ResolvePath: every path is handed on as supplied
ResolvePathIdentity(p, h) == p

RECURSIVE ReplaceEvery(_, _, _)
ReplaceEvery(s, c, repl) ==
  IF s = <<>> THEN <<>>
  ELSE (IF Head(s) = c THEN repl ELSE <<Head(s)>>) \o ReplaceEvery(Tail(s), c, repl)

\* a mutant of ResolvePath: every ~ of the path is replaced, not the first only
ResolvePathReplaceAll(p, h) ==
  IF StartsWith(p, "~") THEN ReplaceEvery(p, "~", Coalesce(h, Str(<<>>)).v) ELSE p

\* p.startsWith("~") ? p.replace("~", process.env.HOME ?? "") : p
ResolvePath(p, h) ==
  IF StartsWith(p, "~") THEN ReplaceFirst(p, "~", Coalesce(h, Str(<<>>)).v) ELSE p

(***************************************************************************)
(* path.basename (POSIX): trailing slashes are dropped, then the text      *)
(* after the last slash is the name.                                       *)
(***************************************************************************)
RECURSIVE StripTrailingSlashes(_)
StripTrailingSlashes(p) ==
  IF p # <<>> /\ p[Len(p)] = "/" THEN StripTrailingSlashes(SubSeq(p, 1, Len(p) - 1)) ELSE p

\* index of the last occurrence of character c in s, 0 when there is none
LastIndexOf(s, c) ==
  IF Contains(s, c) THEN CHOOSE i \in 1..Len(s) : s[i] = c /\ \A j \in (i + 1)..Len(s) : s[j] # c
  ELSE 0

Basename(p) ==
  LET q == StripTrailingSlashes(p)
  IN SubSeq(q, LastIndexOf(q, "/") + 1, Len(q))

(***************************************************************************)
(* Type Classifier (detectFileType of ./media.js): extension lookup,       *)
(* case-insensitive, "stream" for an unknown or missing extension.         *)
(***************************************************************************)
UpperCase == <<"A", "B", "C", "D", "E", "F", "G", "H", "I", "J", "K", "L", "M", "N", "O", "P", "Q", "R", "S", "T", "U", "V", "W", "X", "Y", "Z">>
LowerCase == <<"a", "b", "c", "d", "e", "f", "g", "h", "i", "j", "k", "l", "m", "n", "o", "p", "q", "r", "s", "t", "u", "v", "w", "x", "y", "z">>

ToLowerChar(c) ==
  IF \E i \in 1..26 : UpperCase[i] = c
  THEN LowerCase[CHOOSE i \in 1..26 : UpperCase[i] = c]
  ELSE c

ToLowerCase(s) == [i \in 1..Len(s) |-> ToLowerChar(s[i])]

\* the extension of a file name, without the dot; <<>> when it has none
Extension(name) ==
  LET i == LastIndexOf(name, ".")
  IN IF i = 0 THEN <<>> ELSE SubSeq(name, i + 1, Len(name))

FileTypeTags ==
  { <<"o", "p", "u", "s">>, <<"m", "p", "4">>, <<"p", "d", "f">>, <<"d", "o", "c">>,
    <<"x", "l", "s">>, <<"p", "p", "t">>, <<"s", "t", "r", "e", "a", "m">> }

detectFileType(name) ==
  LET ext == ToLowerCase(Extension(name))
  IN CASE ext = <<"p", "d", "f">> -> <<"p", "d", "f">>
       [] ext = <<"m", "p", "4">> -> <<"m", "p", "4">>
       [] ext = <<"o", "p", "u", "s">> -> <<"o", "p", "u", "s">>
       [] ext \in {<<"d", "o", "c">>, <<"d", "o", "c", "x">>} -> <<"d", "o", "c">>
       [] ext \in {<<"x", "l", "s">>, <<"x", "l", "s", "x">>} -> <<"x", "l", "s">>
       [] ext \in {<<"p", "p", "t">>, <<"p", "p", "t", "x">>} -> <<"p", "p", "t">>
       [] OTHER -> <<"s", "t", "r", "e", "a", "m">>

(***************************************************************************)
(* Buffer.prototype.toString("base64") and the matching decoder.           *)
(***************************************************************************)
Base64Alphabet == <<"A", "B", "C", "D", "E", "F", "G", "H", "I", "J", "K", "L", "M", "N", "O", "P", "Q", "R", "S", "T", "U", "V", "W", "X", "Y", "Z", "a", "b", "c", "d", "e", "f", "g", "h", "i", "j", "k", "l", "m", "n", "o", "p", "q", "r", "s", "t", "u", "v", "w", "x", "y", "z", "0", "1", "2", "3", "4", "5", "6", "7", "8", "9", "+", "/">>

Sextet(n) == Base64Alphabet[n + 1]

RECURSIVE Base64NoPad(_)
\* a mutant of Base64Encode: the bits of a last, incomplete group are dropped
Base64NoPad(b) ==
  IF Len(b) < 3 THEN <<>>
  ELSE << Sextet(b[1] \div 4), Sextet((b[1] % 4) * 16 + b[2] \div 16),
          Sextet((b[2] % 16) * 4 + b[3] \div 64), Sextet(b[3] % 64) >>
       \o Base64NoPad(SubSeq(b, 4, Len(b)))

RECURSIVE Base64Encode(_)
Base64Encode(b) ==
  IF Len(b) = 0 THEN <<>>
  ELSE IF Len(b) = 1
    THEN << Sextet(b[1] \div 4), Sextet((b[1] % 4) * 16), "=", "=" >>
  ELSE IF Len(b) = 2
    THEN << Sextet(b[1] \div 4), Sextet((b[1] % 4) * 16 + b[2] \div 16),
            Sextet((b[2] % 16) * 4), "=" >>
  ELSE << Sextet(b[1] \div 4), Sextet((b[1] % 4) * 16 + b[2] \div 16),
          Sextet((b[2] % 16) * 4 + b[3] \div 64), Sextet(b[3] % 64) >>
       \o Base64Encode(SubSeq(b, 4, Len(b)))

\* the value of a base64 character
SextetOf(c) == (CHOOSE i \in 1..64 : Base64Alphabet[i] = c) - 1

IsBase64Char(c) == \E i \in 1..64 : Base64Alphabet[i] = c

RECURSIVE Base64Decode(_)
\* the bytes a base64 text stands for (groups of four characters, = padding)
Base64Decode(s) ==
  IF Len(s) < 4 THEN <<>>
  ELSE LET a == SextetOf(s[1])
           b == SextetOf(s[2])
       IN IF s[3] = "=" THEN << a * 4 + b \div 16 >>
          ELSE IF s[4] = "="
            THEN << a * 4 + b \div 16, (b % 16) * 16 + SextetOf(s[3]) \div 4 >>
          ELSE << a * 4 + b \div 16, (b % 16) * 16 + SextetOf(s[3]) \div 4,
                  (SextetOf(s[3]) % 4) * 64 + SextetOf(s[4]) >>
               \o Base64Decode(SubSeq(s, 5, Len(s)))

(***************************************************************************)
(* JSON.stringify(data, null, 2) of an object of string properties; an     *)
(* object is a sequence of <<key, value>> pairs in property order.         *)
(***************************************************************************)
RECURSIVE JsonEscape(_)
JsonEscape(s) ==
  IF s = <<>> THEN ""
  ELSE (CASE Head(s) = "\"" -> "\\\""
          [] Head(s) = "\\" -> "\\\\"
          [] OTHER -> Head(s)) \o JsonEscape(Tail(s))

RECURSIVE JsonMembers(_)
JsonMembers(obj) ==
  IF obj = <<>> THEN ""
  ELSE "\n  \"" \o obj[1][1] \o "\": \"" \o JsonEscape(obj[1][2]) \o "\""
       \o (IF Len(obj) > 1 THEN "," ELSE "\n") \o JsonMembers(Tail(obj))

JsonStringify(obj) == IF obj = <<>> THEN "{}" ELSE "{" \o JsonMembers(obj) \o "}"

(***************************************************************************)
(* Result Envelope builders.                                               *)
(***************************************************************************)
\* new Error(message)
Error(message) == [t |-> "Error", message |-> message]

TextContent(text) == << [type |-> "text", text |-> text] >>

json(data) == [content |-> TextContent(JsonStringify(data)), details |-> data]

\* a mutant of errResult: the failure also carries details
errResultWithDetails(err) ==
  LET message == IF err.t = "Error" THEN err.message ELSE JsString(err)
  IN [content |-> TextContent("Error: " \o message), error |-> message, details |-> err]

errResult(err) ==
  LET message == IF err.t = "Error" THEN err.message ELSE JsString(err)
  IN [content |-> TextContent("Error: " \o message), error |-> message]

\* channel key of the first definition
CH == "feishu-new"

\* the config object handed to the media helpers
buildCfg(def, feishuCfg) ==
  IF def = 1 THEN [channels |-> (CH :> feishuCfg)] ELSE [channels |-> ("feishu" :> feishuCfg)]

(***************************************************************************)
(* Outcomes of the synchronous part of a handler (up to its first await)   *)
(* and of its continuation: it returns an envelope, it suspends on a       *)
(* remote call, or an exception leaves it.  probes lists the               *)
(* fs.existsSync calls made, with their answers.                           *)
(***************************************************************************)
Returned(envelope, probes) == [kind |-> "return", envelope |-> envelope, probes |-> probes]
Awaiting(call, probes) == [kind |-> "await", call |-> call, probes |-> probes]
Thrown(err, probes) == [kind |-> "throw", err |-> err, probes |-> probes]

\* a mutant of Catch: the exception is rethrown
CatchRethrow(outcome) == outcome

\* try { ... } catch (err) { return errResult(err); }
Catch(outcome) ==
  IF outcome.kind = "throw" THEN Returned(errResult(outcome.err), outcome.probes) ELSE outcome

\* the TypeError of calling a method on a value that has none
NotAFunction(x, expr) ==
  IF x.t = "undefined"
  THEN Error("Cannot read properties of undefined (reading 'startsWith')")
  ELSE Error(expr \o " is not a function")

Probe(path, exists) == << [path |-> path, exists |-> exists] >>

MessageType == <<"m", "e", "s", "s", "a", "g", "e">>

(***************************************************************************)
(* doUploadImage                                                           *)
(***************************************************************************)
doUploadImage(def, feishuCfg, params, h, exists) ==
  Catch(
    LET imagePath == params.path
        imageType == Default(params.imageType, Str(MessageType))
    IN IF imagePath.t # "string"
       THEN Thrown(NotAFunction(imagePath, "imagePath.startsWith"), <<>>)
       ELSE LET resolvedPath == ResolvePath(imagePath.v, h)
            IN IF ~exists
               THEN Returned(errResult(Error("Image file not found: " \o ToStr(resolvedPath))),
                             Probe(resolvedPath, exists))
               ELSE Awaiting([fn |-> "uploadImageFeishu", cfg |-> buildCfg(def, feishuCfg),
                              image |-> Str(resolvedPath), imageType |-> imageType],
                             Probe(resolvedPath, exists)))

\* const name = fileName || path.basename(resolvedPath)
uploadFileName(fileName, resolvedPath) == OrElse(fileName, Str(Basename(resolvedPath)))

\* a mutant of uploadFileType: the classifier wins over the caller's fileType
uploadFileTypeInferredFirst(fileType, name) ==
  IF detectFileType(name.v) # <<"s", "t", "r", "e", "a", "m">>
  THEN Str(detectFileType(name.v))
  ELSE OrElse(fileType, Str(detectFileType(name.v)))

\* const type = fileType || detectFileType(name)
uploadFileType(fileType, name) == OrElse(fileType, Str(detectFileType(name.v)))

(***************************************************************************)
(* doUploadFile                                                            *)
(***************************************************************************)
doUploadFile(def, feishuCfg, params, h, exists) ==
  Catch(
    LET filePath == params.path
    IN IF filePath.t # "string"
       THEN Thrown(NotAFunction(filePath, "filePath.startsWith"), <<>>)
       ELSE LET resolvedPath == ResolvePath(filePath.v, h)
                name == uploadFileName(params.fileName, resolvedPath)
                type == uploadFileType(params.fileType, name)
            IN IF ~exists
               THEN Returned(errResult(Error("File not found: " \o ToStr(resolvedPath))),
                             Probe(resolvedPath, exists))
               ELSE Awaiting([fn |-> "uploadFileFeishu", cfg |-> buildCfg(def, feishuCfg),
                              file |-> Str(resolvedPath), fileName |-> name,
                              fileType |-> type, duration |-> params.duration],
                             Probe(resolvedPath, exists)))

(***************************************************************************)
(* doDownloadImage, doDownloadFile, doSendImage, doSendFile: up to the     *)
(* await of the remote call.                                               *)
(***************************************************************************)
doDownloadImage(def, feishuCfg, params) ==
  Catch(Awaiting([fn |-> "downloadImageFeishu", cfg |-> buildCfg(def, feishuCfg),
                  imageKey |-> params.imageKey], <<>>))

doDownloadFile(def, feishuCfg, params) ==
  Catch(Awaiting([fn |-> "downloadMessageResourceFeishu", cfg |-> buildCfg(def, feishuCfg),
                  messageId |-> params.messageId, fileKey |-> params.fileKey,
                  type |-> Default(params.type, Str(<<"f", "i", "l", "e">>))], <<>>))

doSendImage(def, feishuCfg, params) ==
  Catch(Awaiting([fn |-> "sendImageFeishu", cfg |-> buildCfg(def, feishuCfg),
                  to |-> params.to, imageKey |-> params.imageKey,
                  replyToMessageId |-> params.replyToMessageId], <<>>))

doSendFile(def, feishuCfg, params) ==
  Catch(Awaiting([fn |-> "sendFileFeishu", cfg |-> buildCfg(def, feishuCfg),
                  to |-> params.to, fileKey |-> params.fileKey,
                  replyToMessageId |-> params.replyToMessageId], <<>>))

(***************************************************************************)
(* The embedded data URL and the download envelopes.                       *)
(***************************************************************************)
DataPrefix == <<"d", "a", "t", "a", ":">>
Base64Marker == <<";", "b", "a", "s", "e", "6", "4", ",">>
ImagePng == <<"i", "m", "a", "g", "e", "/", "p", "n", "g">>
OctetStream == <<"a", "p", "p", "l", "i", "c", "a", "t", "i", "o", "n", "/", "o", "c", "t", "e", "t", "-", "s", "t", "r", "e", "a", "m">>
Unknown == <<"u", "n", "k", "n", "o", "w", "n">>

\* a mutant of DataUrl: image/png whatever the operation
DataUrlPngDefault(result, defaultType) ==
  DataPrefix \o OrElse(result.contentType, Str(ImagePng)).v \o Base64Marker
    \o Base64Encode(result.buffer)

\* "data:" + (result.contentType || defaultType) + ";base64," + result.buffer.toString("base64")
DataUrl(result, defaultType) ==
  DataPrefix \o OrElse(result.contentType, Str(defaultType)).v \o Base64Marker
    \o Base64Encode(result.buffer)

DownloadImageEnvelope(result) ==
  [content |-> TextContent("Downloaded image (" \o NumStr(Len(result.buffer))
                           \o " bytes, type: "
                           \o JsString(OrElse(result.contentType, Str(Unknown))) \o ")"),
   details |-> [dataUrl |-> DataUrl(result, ImagePng)] @@ result]

DownloadFileEnvelope(result) ==
  [content |-> TextContent("Downloaded file (" \o NumStr(Len(result.buffer))
                           \o " bytes, type: "
                           \o JsString(OrElse(result.contentType, Str(Unknown)))
                           \o ", name: "
                           \o JsString(OrElse(result.fileName, Str(Unknown))) \o ")"),
   details |-> [dataUrl |-> DataUrl(result, OctetStream)] @@ result]

(***************************************************************************)
(* The continuation of each do* after its await: settled is the remote     *)
(* call's outcome, fulfilled with a value or rejected with an error.       *)
(***************************************************************************)
Fulfilled(value) == [kind |-> "fulfilled", value |-> value]
Rejected(err) == [kind |-> "rejected", err |-> err]

\* a mutant of ResumeJson: a failed remote call is issued once more
ResumeJsonRetry(settled, probes) ==
  IF settled.kind = "rejected" THEN Awaiting([fn |-> "retry"], probes)
  ELSE Returned(json(settled.value), probes)

\* doUploadImage, doUploadFile, doSendImage, doSendFile: return json(result)
ResumeJson(settled, probes) ==
  Catch(IF settled.kind = "rejected" THEN Thrown(settled.err, probes)
        ELSE Returned(json(settled.value), probes))

ResumeDownloadImage(settled, probes) ==
  Catch(IF settled.kind = "rejected" THEN Thrown(settled.err, probes)
        ELSE Returned(DownloadImageEnvelope(settled.value), probes))

ResumeDownloadFile(settled, probes) ==
  Catch(IF settled.kind = "rejected" THEN Thrown(settled.err, probes)
        ELSE Returned(DownloadFileEnvelope(settled.value), probes))

Resume(tool, settled, probes) ==
  CASE tool = "feishu_download_image" -> ResumeDownloadImage(settled, probes)
    [] tool = "feishu_download_file" -> ResumeDownloadFile(settled, probes)
    [] OTHER -> ResumeJson(settled, probes)

(***************************************************************************)
(* The execute handlers of the registered tools.                           *)
(***************************************************************************)
PathRequired == <<"'", "p", "a", "t", "h", "'", " ", "i", "s", " ", "r", "e", "q", "u", "i", "r", "e", "d">>

\* the envelope either definition returns for a missing path
MissingPath(def, hint) ==
  IF def = 1 THEN errResult(Str(PathRequired))
  ELSE [content |-> TextContent("Error: 'path' parameter is required (" \o hint \o ")"),
        error |-> "Missing required parameter"]

\* a mutant of feishu_upload_image: the presence check is left out
feishu_upload_image_unchecked(def, feishuCfg, params, h, exists) ==
  doUploadImage(def, feishuCfg, params, h, exists)

feishu_upload_image(def, feishuCfg, params, h, exists) ==
  IF ~Truthy(params.path)
  THEN Returned(MissingPath(def, "local file path to the image"), <<>>)
  ELSE doUploadImage(def, feishuCfg, params, h, exists)

feishu_upload_file(def, feishuCfg, params, h, exists) ==
  IF ~Truthy(params.path)
  THEN Returned(MissingPath(def, "local file path"), <<>>)
  ELSE doUploadFile(def, feishuCfg, params, h, exists)

feishu_download_image(def, feishuCfg, params) == doDownloadImage(def, feishuCfg, params)

feishu_download_file(def, feishuCfg, params) == doDownloadFile(def, feishuCfg, params)

feishu_send_image(def, feishuCfg, params) == doSendImage(def, feishuCfg, params)

feishu_send_file(def, feishuCfg, params) == doSendFile(def, feishuCfg, params)

(***************************************************************************)
(* Inputs: tool parameters as the host passes them (a field may be absent, *)
(* empty or of the wrong type), the answers of the remote helpers of       *)
(* ./media.js, and the environment.                                        *)
(***************************************************************************)
Paths ==
  { <<"/", "t", "m", "p", "/", "r", "e", "p", "o", "r", "t", ".", "p", "d", "f">>,
    <<"~", "/", "a", ".", "P", "D", "F">>,
    <<"~", "/", "b", "~", "1", ".", "m", "p", "4">>,
    <<"/", "t", "m", "p", "/", "d", "a", "t", "a">>,
    <<"/", "d", "/", "x", ".", "d", "o", "c", "x">>,
    <<"/", "d", ".", "x", "/">> }

PathValues == {Undef, Str(<<>>), Num(7)} \cup {Str(p) : p \in Paths}

UploadImageParams ==
  [path : PathValues,
   imageType : {Undef, Str(MessageType), Str(<<"a", "v", "a", "t", "a", "r">>)}]

UploadFileParams ==
  [path : PathValues,
   fileName : {Undef, Str(<<>>), Str(<<"v", ".", "o", "p", "u", "s">>), Str(<<"a", ".", "z", "i", "p">>)},
   fileType : {Undef, Str(<<>>), Str(<<"p", "d", "f">>), Str(<<"s", "t", "r", "e", "a", "m">>),
               Str(<<"z", "i", "p">>)},
   duration : {Undef, Num(1000)}]

ImageKeys == {Undef, Str(<<"i", "m", "g", "_", "1", "2", "3">>)}
FileKeys == {Undef, Str(<<"f", "i", "l", "e", "_", "9">>)}
MessageIds == {Undef, Str(<<"o", "m", "_", "1">>)}
Destinations == {Undef, Str(<<"o", "c", "_", "1">>)}

DownloadImageParams == [imageKey : ImageKeys \cup {Str(<<>>)}]

DownloadFileParams ==
  [messageId : MessageIds, fileKey : FileKeys,
   type : {Undef, Str(<<"i", "m", "a", "g", "e">>), Str(<<"f", "i", "l", "e">>)}]

SendImageParams == [to : Destinations, imageKey : ImageKeys, replyToMessageId : MessageIds]

SendFileParams == [to : Destinations, fileKey : FileKeys, replyToMessageId : MessageIds]

ByteValues == {0, 77, 165, 255}

\* the 17-byte payload of the download scenario
Buffer17 == <<137, 80, 78, 71, 13, 10, 26, 10, 0, 0, 0, 13, 73, 72, 68, 82, 255>>

Buffers == SeqsUpTo(ByteValues, MaxBuf) \cup {Buffer17}

ContentTypes ==
  {Undef, Str(<<>>), Str(ImagePng), Str(<<"i", "m", "a", "g", "e", "/", "j", "p", "e", "g">>)}

DownloadImageResults == [buffer : Buffers, contentType : ContentTypes]

DownloadFileResults ==
  [buffer : Buffers, contentType : ContentTypes,
   fileName : {Undef, Str(<<"a", ".", "b", "i", "n">>)}]

\* the values the remote helper of a call can resolve to
ResultsOf(fn) ==
  CASE fn = "uploadImageFeishu" -> { << <<"imageKey", <<"i", "m", "g", "_", "v", "2">> >> >> }
    [] fn = "uploadFileFeishu" -> { << <<"fileKey", <<"f", "i", "l", "e", "_", "v", "2">> >> >> }
    [] fn = "downloadImageFeishu" -> DownloadImageResults
    [] fn = "downloadMessageResourceFeishu" -> DownloadFileResults
    [] OTHER -> { << <<"messageId", <<"o", "m", "_", "2">> >>, <<"chatId", <<"o", "c", "_", "1">> >> >> }

\* the values the remote helper of a call can throw
RejectionsOf(fn) ==
  { Error("Request failed with status code 404"),
    Error("Feishu request rejected: invalid receive_id"),
    Str(<<"b", "o", "o", "m">>) }
  \cup (IF fn \in {"uploadImageFeishu", "uploadFileFeishu"}
        THEN { Error("ENOENT: no such file or directory") }
        ELSE {})

Homes == {Undef, Str(<<"/", "h", "o", "m", "e", "/", "u">>)}

Credentials ==
  { [appId |-> "cli_a1", appSecret |-> "s3cret", domain |-> "feishu"] }

Defs == {1, 2}

Slots == {1, 2}

(***************************************************************************)
(* State: inv[i] is an invocation of a tool, home is process.env.HOME,     *)
(* cred is the channel config captured at registration, rs is the state    *)
(* of the Path Resolver exercised on its own, reg is a run of             *)
(* registerFeishuMediaTools, ob is a run of the onboarding adapter.        *)
(***************************************************************************)
Idle == [pc |-> "idle"]

NoEnvelope == [none |-> TRUE]
NotSettled == [kind |-> "pending"]

\* the invocation after the synchronous part of execute
Started(def, tool, params, outcome) ==
  [pc |-> CASE outcome.kind = "return" -> "done"
            [] outcome.kind = "await" -> "awaiting"
            [] OTHER -> "threw",
   def |-> def, tool |-> tool, params |-> params,
   probes |-> outcome.probes,
   calls |-> IF outcome.kind = "await" THEN << outcome.call >> ELSE <<>>,
   settled |-> NotSettled,
   result |-> IF outcome.kind = "return" THEN outcome.envelope ELSE NoEnvelope]

\* a mutant of Settled: a rejection is swallowed and the invocation keeps waiting
SettledKeepsWaiting(r, settled, outcome) ==
  IF settled.kind = "rejected"
  THEN [r EXCEPT !.settled = settled]
  ELSE [r EXCEPT !.pc = "done", !.settled = settled, !.result = outcome.envelope]

\* the invocation after the continuation ran on the settled remote call
Settled(r, settled, outcome) ==
  [r EXCEPT !.pc = CASE outcome.kind = "return" -> "done"
                     [] outcome.kind = "await" -> "awaiting"
                     [] OTHER -> "threw",
            !.settled = settled,
            !.calls = IF outcome.kind = "await" THEN Append(r.calls, outcome.call) ELSE r.calls,
            !.result = IF outcome.kind = "return" THEN outcome.envelope ELSE NoEnvelope]

\* the remote call an invocation is suspended on
PendingCall(r) == r.calls[Len(r.calls)]

Init ==
  /\ inv = [i \in Slots |-> Idle]
  /\ home \in Homes
  /\ cred \in Credentials
  /\ rs = [phase |-> "off"]
  /\ reg = [pc |-> "off"]
  /\ ob = [pc |-> "off"]

UploadImage(i) ==
  /\ inv[i].pc = "idle"
  /\ \E def \in Defs, params \in UploadImageParams, exists \in BOOLEAN :
       inv' = [inv EXCEPT ![i] = Started(def, "feishu_upload_image", params,
                                   feishu_upload_image(def, cred, params, home, exists))]
  /\ UNCHANGED <<home, cred, rs, reg, ob>>

UploadFile(i) ==
  /\ inv[i].pc = "idle"
  /\ \E def \in Defs, params \in UploadFileParams, exists \in BOOLEAN :
       inv' = [inv EXCEPT ![i] = Started(def, "feishu_upload_file", params,
                                   feishu_upload_file(def, cred, params, home, exists))]
  /\ UNCHANGED <<home, cred, rs, reg, ob>>

DownloadImage(i) ==
  /\ inv[i].pc = "idle"
  /\ \E def \in Defs, params \in DownloadImageParams :
       inv' = [inv EXCEPT ![i] = Started(def, "feishu_download_image", params,
                                   feishu_download_image(def, cred, params))]
  /\ UNCHANGED <<home, cred, rs, reg, ob>>

DownloadFile(i) ==
  /\ inv[i].pc = "idle"
  /\ \E def \in Defs, params \in DownloadFileParams :
       inv' = [inv EXCEPT ![i] = Started(def, "feishu_download_file", params,
                                   feishu_download_file(def, cred, params))]
  /\ UNCHANGED <<home, cred, rs, reg, ob>>

SendImage(i) ==
  /\ inv[i].pc = "idle"
  /\ \E def \in Defs, params \in SendImageParams :
       inv' = [inv EXCEPT ![i] = Started(def, "feishu_send_image", params,
                                   feishu_send_image(def, cred, params))]
  /\ UNCHANGED <<home, cred, rs, reg, ob>>

SendFile(i) ==
  /\ inv[i].pc = "idle"
  /\ \E def \in Defs, params \in SendFileParams :
       inv' = [inv EXCEPT ![i] = Started(def, "feishu_send_file", params,
                                   feishu_send_file(def, cred, params))]
  /\ UNCHANGED <<home, cred, rs, reg, ob>>

\* the awaited remote call resolves
RemoteFulfils(i) ==
  /\ inv[i].pc = "awaiting"
  /\ \E value \in ResultsOf(PendingCall(inv[i]).fn) :
       inv' = [inv EXCEPT ![i] = Settled(inv[i], Fulfilled(value),
                                   Resume(inv[i].tool, Fulfilled(value), inv[i].probes))]
  /\ UNCHANGED <<home, cred, rs, reg, ob>>

\* the awaited remote call throws
RemoteRejects(i) ==
  /\ inv[i].pc = "awaiting"
  /\ \E err \in RejectionsOf(PendingCall(inv[i]).fn) :
       inv' = [inv EXCEPT ![i] = Settled(inv[i], Rejected(err),
                                   Resume(inv[i].tool, Rejected(err), inv[i].probes))]
  /\ UNCHANGED <<home, cred, rs, reg, ob>>

\* the host takes the envelope; the slot is free for the next invocation
Collect(i) ==
  /\ inv[i].pc = "done"
  /\ inv' = [inv EXCEPT ![i] = Idle]
  /\ UNCHANGED <<home, cred, rs, reg, ob>>

Next ==
  \/ UploadImage(1)
  \/ UploadFile(1)
  \/ DownloadImage(1)
  \/ DownloadFile(1)
  \/ SendImage(1)
  \/ SendFile(1)
  \/ RemoteFulfils(1)
  \/ RemoteRejects(1)
  \/ Collect(1)

Spec == Init /\ [][Next]_vars

(***************************************************************************)
(* The Path Resolver on its own, over every short path and HOME value.     *)
(***************************************************************************)
\* longest HOME value drawn exhaustively for the Path Resolver
MaxHomeLen == 2

ResolverPaths == SeqsUpTo({"~", "/", "a"}, MaxPathLen)

ResolverHomes == {Undef} \cup {Str(h) : h \in SeqsUpTo({"/", "u", "~", "$", "&", "'"}, MaxHomeLen)}

InitResolver ==
  /\ inv = [i \in Slots |-> Idle]
  /\ home \in ResolverHomes
  /\ cred \in Credentials
  /\ \E p \in ResolverPaths : rs = [phase |-> "input", path |-> p]
  /\ reg = [pc |-> "off"]
  /\ ob = [pc |-> "off"]

\* the path is resolved, as doUploadImage and doUploadFile do before the probe
ResolveOnce ==
  /\ rs.phase = "input"
  /\ rs' = [phase |-> "resolved", path |-> rs.path, out |-> ResolvePath(rs.path, home)]
  /\ UNCHANGED <<inv, home, cred, reg, ob>>

\* the output is given to the resolver again
ResolveAgain ==
  /\ rs.phase = "resolved"
  /\ rs' = [phase |-> "again", path |-> rs.path, out |-> rs.out,
            out2 |-> ResolvePath(rs.out, home)]
  /\ UNCHANGED <<inv, home, cred, reg, ob>>

NextResolver == ResolveOnce \/ ResolveAgain

SpecResolver == InitResolver /\ [][NextResolver]_vars

(***************************************************************************)
(* Several invocations in flight.  Every execute is an async function: it  *)
(* runs to its await, the other invocations run while its remote call is   *)
(* pending, and its continuation runs when the call settles.  What an      *)
(* invocation keeps across the await are the locals of its own call frame. *)
(***************************************************************************)
ToolNames ==
  << "feishu_upload_image", "feishu_upload_file", "feishu_download_image",
     "feishu_download_file", "feishu_send_image", "feishu_send_file" >>

\* the execute handler registered under a tool name
Execute(def, tool, feishuCfg, params, h, exists) ==
  CASE tool = "feishu_upload_image" -> feishu_upload_image(def, feishuCfg, params, h, exists)
    [] tool = "feishu_upload_file" -> feishu_upload_file(def, feishuCfg, params, h, exists)
    [] tool = "feishu_download_image" -> feishu_download_image(def, feishuCfg, params)
    [] tool = "feishu_download_file" -> feishu_download_file(def, feishuCfg, params)
    [] tool = "feishu_send_image" -> feishu_send_image(def, feishuCfg, params)
    [] OTHER -> feishu_send_file(def, feishuCfg, params)

\* a mutant of Locals: the frame is kept in one place shared by all invocations
SharedLocals(i) ==
  IF inv[1].pc = "awaiting" /\ inv[1].tool = inv[i].tool THEN inv[1] ELSE inv[i]

\* the call frame of invocation i
Locals(i) == inv[i]

ConcPath == Str(<<"~", "/", "a", ".", "P", "D", "F">>)

ConcParams(tool) ==
  CASE tool = "feishu_upload_image" ->
         { [path |-> Undef, imageType |-> Undef], [path |-> ConcPath, imageType |-> Undef] }
    [] tool = "feishu_upload_file" ->
         { [path |-> ConcPath, fileName |-> Undef, fileType |-> Undef, duration |-> Undef],
           [path |-> ConcPath, fileName |-> Str(<<"v", ".", "o", "p", "u", "s">>),
            fileType |-> Str(<<"z", "i", "p">>), duration |-> Num(1000)] }
    [] tool = "feishu_download_image" ->
         { [imageKey |-> Str(<<"i", "m", "g", "_", "1", "2", "3">>)] }
    [] tool = "feishu_download_file" ->
         { [messageId |-> Str(<<"o", "m", "_", "1">>), fileKey |-> Str(<<"f", "i", "l", "e", "_", "9">>),
            type |-> Undef] }
    [] tool = "feishu_send_image" ->
         { [to |-> Str(<<"o", "c", "_", "1">>), imageKey |-> Str(<<"i", "m", "g", "_", "1", "2", "3">>),
            replyToMessageId |-> Undef] }
    [] OTHER ->
         { [to |-> Str(<<"o", "c", "_", "1">>), fileKey |-> Undef, replyToMessageId |-> Undef] }

ConcBuffers == { <<>>, <<77>> }

ConcResultsOf(fn) ==
  CASE fn = "downloadImageFeishu" ->
         [buffer : ConcBuffers, contentType : {Undef, Str(ImagePng)}]
    [] fn = "downloadMessageResourceFeishu" ->
         [buffer : ConcBuffers, contentType : {Undef}, fileName : {Undef, Str(<<"a", ".", "b", "i", "n">>)}]
    [] OTHER -> ResultsOf(fn)

ConcRejectionsOf(fn) ==
  { Error("Request failed with status code 404"), Str(<<"b", "o", "o", "m">>) }

\* invocation i is started and runs to its first await or return
Invoke(i) ==
  /\ inv[i].pc = "idle"
  /\ \E def \in Defs, t \in DOMAIN ToolNames, exists \in BOOLEAN :
       \E params \in ConcParams(ToolNames[t]) :
         inv' = [inv EXCEPT ![i] = Started(def, ToolNames[t], params,
                                     Execute(def, ToolNames[t], cred, params, home, exists))]
  /\ UNCHANGED <<home, cred, rs, reg, ob>>

\* the remote call of invocation i resolves and its continuation runs
ReplyArrives(i) ==
  /\ inv[i].pc = "awaiting"
  /\ \E value \in ConcResultsOf(PendingCall(inv[i]).fn) :
       inv' = [inv EXCEPT ![i] = Settled(Locals(i), Fulfilled(value),
                                   Resume(Locals(i).tool, Fulfilled(value), Locals(i).probes))]
  /\ UNCHANGED <<home, cred, rs, reg, ob>>

\* the remote call of invocation i throws and its catch block runs
ReplyThrows(i) ==
  /\ inv[i].pc = "awaiting"
  /\ \E err \in ConcRejectionsOf(PendingCall(inv[i]).fn) :
       inv' = [inv EXCEPT ![i] = Settled(Locals(i), Rejected(err),
                                   Resume(Locals(i).tool, Rejected(err), Locals(i).probes))]
  /\ UNCHANGED <<home, cred, rs, reg, ob>>

NextConc == \E i \in Slots : Invoke(i) \/ ReplyArrives(i) \/ ReplyThrows(i) \/ Collect(i)

SpecConc == Init /\ [][NextConc]_vars

\* every issued remote call eventually replies or throws
SpecConcFair ==
  /\ Init
  /\ [][NextConc]_vars
  /\ \A i \in Slots : WF_vars(ReplyArrives(i) \/ ReplyThrows(i))

(***************************************************************************)
(* Registration.  registerFeishuMediaTools reads the channel config from   *)
(* api.config, returns early without credentials or with the media tools   *)
(* switched off, and otherwise calls api.registerTool six times.  The      *)
(* resolved tools config is the answer of resolveToolsConfig               *)
(* (./tools-config.js).                                                    *)
(***************************************************************************)
\* the key under api.config.channels each definition reads
RegChannelKey(def) == IF def = 1 THEN CH ELSE "feishu"

CredValues == {Undef, Str(<<>>), Str(<<" ">>), Str(<<"c", "l", "i">>)}

\* a channel config, or undefined when the key is absent
ChannelConfigs == {Undef} \cup [appId : CredValues, appSecret : CredValues]

ApiConfigs ==
  {Undef, [channels |-> Undef]}
  \cup { [channels |-> ch] : ch \in [{CH, "feishu"} -> ChannelConfigs] }

ResolvedToolsConfigs == [media : BOOLEAN]

\* api.config?.channels?.[key]
ChannelOf(config, key) ==
  IF config = Undef THEN Undef
  ELSE IF config.channels = Undef THEN Undef
  ELSE config.channels[key]

\* feishuCfg?.appId, feishuCfg?.appSecret
FieldOf(feishuCfg, field) == IF feishuCfg = Undef THEN Undef ELSE feishuCfg[field]

\* a mutant of registerFeishuMediaTools: one credential is enough
registerWithEitherCredential(def, config, toolsCfg) ==
  LET feishuCfg == ChannelOf(config, RegChannelKey(def))
  IN  IF ~Truthy(FieldOf(feishuCfg, "appId")) /\ ~Truthy(FieldOf(feishuCfg, "appSecret"))
      THEN [tools |-> <<>>, log |-> "debug"]
      ELSE IF ~toolsCfg.media THEN [tools |-> <<>>, log |-> "debug"]
      ELSE [tools |-> ToolNames, log |-> "info"]

\* the tools registered, in order, and the level of the line logged
registerFeishuMediaTools(def, config, toolsCfg) ==
  LET feishuCfg == ChannelOf(config, RegChannelKey(def))
  IN  IF ~Truthy(FieldOf(feishuCfg, "appId")) \/ ~Truthy(FieldOf(feishuCfg, "appSecret"))
      THEN [tools |-> <<>>, log |-> "debug"]
      ELSE IF ~toolsCfg.media THEN [tools |-> <<>>, log |-> "debug"]
      ELSE [tools |-> ToolNames, log |-> "info"]

InitRegister ==
  /\ inv = [i \in Slots |-> Idle]
  /\ home \in Homes
  /\ cred \in Credentials
  /\ rs = [phase |-> "off"]
  /\ \E def \in Defs, config \in ApiConfigs, toolsCfg \in ResolvedToolsConfigs :
       reg = [pc |-> "loaded", def |-> def, config |-> config, toolsCfg |-> toolsCfg]
  /\ ob = [pc |-> "off"]

\* the host calls registerFeishuMediaTools(api)
Register ==
  /\ reg.pc = "loaded"
  /\ reg' = [pc |-> "registered", def |-> reg.def, config |-> reg.config,
             toolsCfg |-> reg.toolsCfg,
             out |-> registerFeishuMediaTools(reg.def, reg.config, reg.toolsCfg)]
  /\ UNCHANGED <<inv, home, cred, rs, ob>>

SpecRegister == InitRegister /\ [][Register]_vars

(***************************************************************************)
(* Onboarding adapter (src/unnamed/part_000).  A config is an object: a    *)
(* function from its keys to their values; an absent key is not in the     *)
(* domain.  Every editor builds its result with object spreads.            *)
(***************************************************************************)
EmptyObj == [k \in {} |-> k]

\* obj?.[key]
Get(obj, key) == IF obj # Undef /\ key \in DOMAIN obj THEN obj[key] ELSE Undef

\* { ...obj }
Spread(obj) == IF obj = Undef THEN EmptyObj ELSE obj

\* { ...cfg, channels: { ...cfg.channels, [CH]: { ...chCfg, ...fields } } }
WithChannelFields(cfg, fields) ==
  LET channels == Get(cfg, "channels")
  IN  ("channels" :> ((CH :> (fields @@ Spread(Get(channels, CH)))) @@ Spread(channels))) @@ cfg

WhiteSpace == {" ", "\t", "\n"}

RECURSIVE TrimStart(_)
TrimStart(s) == IF s # <<>> /\ Head(s) \in WhiteSpace THEN TrimStart(Tail(s)) ELSE s

RECURSIVE TrimEnd(_)
TrimEnd(s) ==
  IF s # <<>> /\ s[Len(s)] \in WhiteSpace THEN TrimEnd(SubSeq(s, 1, Len(s) - 1)) ELSE s

\* String.prototype.trim
Trim(s) == TrimEnd(TrimStart(s))

RECURSIVE NumChars(_)
NumChars(n) == IF n < 10 THEN <<Digits[n + 1]>> ELSE NumChars(n \div 10) \o <<Digits[(n % 10) + 1]>>

\* String(v) of an allowFrom entry, as characters
StringOf(v) == IF v.t = "number" THEN NumChars(v.v) ELSE v.v

RECURSIVE SplitFrom(_, _, _)
\* raw.split(/[\n,;]+/g): the pieces between maximal runs of separators
SplitFrom(raw, cur, inRun) ==
  IF raw = <<>> THEN <<cur>>
  ELSE IF Head(raw) \in {"\n", ",", ";"}
       THEN IF inRun THEN SplitFrom(Tail(raw), cur, TRUE)
            ELSE <<cur>> \o SplitFrom(Tail(raw), <<>>, TRUE)
       ELSE SplitFrom(Tail(raw), Append(cur, Head(raw)), FALSE)

\* .map(trim).filter(Boolean)
TrimmedNonEmpty(list) ==
  SelectSeq([k \in 1..Len(list) |-> Trim(list[k])], LAMBDA e : e # <<>>)

\* a mutant of parseAllowFromInput: the entry is split on commas only
parseCommaSeparated(raw) ==
  TrimmedNonEmpty(SplitFrom([k \in 1..Len(raw) |-> IF raw[k] \in {"\n", ";"} THEN " " ELSE raw[k]],
                            <<>>, FALSE))

parseAllowFromInput(raw) == TrimmedNonEmpty(SplitFrom(raw, <<>>, FALSE))

RECURSIVE Unique(_)
\* [...new Set(list)]: the first occurrence of each value, in order
Unique(list) ==
  IF list = <<>> THEN <<>>
  ELSE LET init == Unique(SubSeq(list, 1, Len(list) - 1))
           last == list[Len(list)]
       IN  IF \E k \in 1..Len(init) : init[k] = last THEN init ELSE Append(init, last)

\* the strings of a list of string values, and back
Strings(list) == [k \in 1..Len(list) |-> StringOf(list[k])]
StrValues(list) == [k \in 1..Len(list) |-> Str(list[k])]

\* addWildcardAllowFrom of openclaw/plugin-sdk: the trimmed non-empty
\* entries, with "*" appended unless it is among them
addWildcardAllowFrom(cfg) ==
  LET chCfg == Get(Get(cfg, "channels"), CH)
      next == IF "allowFrom" \in DOMAIN Spread(chCfg)
              THEN TrimmedNonEmpty(Strings(chCfg["allowFrom"])) ELSE <<>>
  IN  StrValues(IF \E k \in 1..Len(next) : next[k] = <<"*">> THEN next ELSE Append(next, <<"*">>))

\* a mutant of setFeishuDmPolicy: allowFrom is written for every policy
setFeishuDmPolicyAnyPolicy(cfg, dmPolicy) ==
  WithChannelFields(cfg, [dmPolicy |-> dmPolicy,
                          allowFrom |-> IF dmPolicy = "open" THEN addWildcardAllowFrom(cfg) ELSE <<>>])

setFeishuDmPolicy(cfg, dmPolicy) ==
  WithChannelFields(cfg,
    IF dmPolicy = "open"
    THEN [dmPolicy |-> dmPolicy, allowFrom |-> addWildcardAllowFrom(cfg)]
    ELSE [dmPolicy |-> dmPolicy])

setFeishuAllowFrom(cfg, allowFrom) == WithChannelFields(cfg, [allowFrom |-> allowFrom])

setFeishuGroupPolicy(cfg, groupPolicy) ==
  WithChannelFields(cfg, [enabled |-> TRUE, groupPolicy |-> groupPolicy])

setFeishuGroupAllowFrom(cfg, groupAllowFrom) ==
  WithChannelFields(cfg, [groupAllowFrom |-> groupAllowFrom])

disable(cfg) == WithChannelFields(cfg, [enabled |-> FALSE])

\* one round of the loop of promptFeishuAllowFrom on the prompter's entry:
\* either the entry is refused and asked again, or the new config is returned
promptFeishuAllowFrom(cfg, entry) ==
  LET chCfg == Get(Get(cfg, "channels"), CH)
      existing == IF "allowFrom" \in DOMAIN Spread(chCfg) THEN chCfg["allowFrom"] ELSE <<>>
      parts == parseAllowFromInput(entry)
      unique == Unique(TrimmedNonEmpty(Strings(existing)) \o parts)
  IN  IF Len(parts) = 0
      THEN [returned |-> FALSE, note |-> "Enter at least one user."]
      ELSE [returned |-> TRUE, cfg |-> setFeishuAllowFrom(cfg, StrValues(unique))]

\* Boolean(obj?.[key]?.trim())
HasText(obj, key) == key \in DOMAIN Spread(obj) /\ Trim(obj[key]) # <<>>

Null == [t |-> "null"]

\* a mutant of BothEntered: one typed value is enough
EitherEntered(appId, appSecret) ==
  \/ appId.t = "string" /\ appId.v # <<>>
  \/ appSecret.t = "string" /\ appSecret.v # <<>>

\* appId && appSecret
BothEntered(appId, appSecret) ==
  /\ appId.t = "string" /\ appId.v # <<>>
  /\ appSecret.t = "string" /\ appSecret.v # <<>>

\* configure on the answers a of the prompter, of resolveFeishuCredentials
\* and of probeFeishu; env is process.env
configure(cfg, env, a) ==
  LET feishuCfg == Get(Get(cfg, "channels"), CH)
      hasConfigCreds == HasText(feishuCfg, "appId") /\ HasText(feishuCfg, "appSecret")
      canUseEnv == ~hasConfigCreds /\ HasText(env, "FEISHU_APP_ID") /\ HasText(env, "FEISHU_APP_SECRET")
      path == CASE canUseEnv -> IF a.keepEnv THEN "env" ELSE "typed"
                [] hasConfigCreds -> IF a.keep THEN "keep" ELSE "typed"
                [] OTHER -> "typed"
      appId == IF path = "typed" THEN Str(Trim(a.appId)) ELSE Null
      appSecret == IF path = "typed" THEN Str(Trim(a.appSecret)) ELSE Null
      afterEnv == IF path = "env" THEN WithChannelFields(cfg, [enabled |-> TRUE]) ELSE cfg
      entered == BothEntered(appId, appSecret)
      afterCreds == IF entered
                    THEN WithChannelFields(afterEnv, [enabled |-> TRUE, appId |-> appId.v,
                                                      appSecret |-> appSecret.v])
                    ELSE afterEnv
      afterDomain == IF a.domain # ""
                     THEN WithChannelFields(afterCreds, [domain |-> a.domain]) ELSE afterCreds
      afterPolicy == IF a.groupPolicy # ""
                     THEN setFeishuGroupPolicy(afterDomain, a.groupPolicy) ELSE afterDomain
      parts == parseAllowFromInput(a.groupEntry)
      afterGroups == IF a.groupPolicy = "allowlist" /\ a.groupEntry # <<>> /\ Len(parts) > 0
                     THEN setFeishuGroupAllowFrom(afterPolicy, StrValues(parts)) ELSE afterPolicy
  IN  [cfg |-> afterGroups,
       path |-> path,
       probed |-> IF entered THEN <<Get(Get(afterCreds, "channels"), CH)>> ELSE <<>>,
       notes |-> (IF a.resolved THEN <<>> ELSE <<"Feishu credentials">>)
                 \o (IF entered
                     THEN << CASE a.probe = "ok" -> "Connected as bot"
                               [] a.probe = "failed" -> "Connection failed: unknown error"
                               [] OTHER -> "Connection test failed: Error: timeout" >>
                     ELSE <<>>)]

MaxEntryLen == 3
MaxTries == 2
MaxEdits == 2

FeishuChannels ==
  { [enabled |-> TRUE, appId |-> <<"i", "d">>, appSecret |-> <<"s">>,
     allowFrom |-> <<Str(<<" ", "a">>), Str(<<"a">>), Num(7)>>],
    [appId |-> <<" ">>, appSecret |-> <<"s">>, allowFrom |-> <<Str(<<>>), Str(<<"b">>), Str(<<" ">>)>>],
    [dmPolicy |-> "pairing", allowFrom |-> <<>>],
    [enabled |-> FALSE, appId |-> <<"i", "d">>, appSecret |-> <<"s">>, domain |-> "lark"] }

Telegram == "telegram" :> [enabled |-> TRUE, allowFrom |-> <<Str(<<"t">>)>>]

OnboardConfigs ==
  { [gateway |-> "local"], [gateway |-> "local", channels |-> Telegram] }
  \cup { [gateway |-> "local", channels |-> (CH :> c) @@ Telegram] : c \in FeishuChannels }
  \cup { [channels |-> (CH :> c)] : c \in FeishuChannels }

Envs ==
  { EmptyObj,
    [FEISHU_APP_ID |-> <<"e">>],
    [FEISHU_APP_ID |-> <<"e">>, FEISHU_APP_SECRET |-> <<"k">>] }

\* what the prompter can hand back from its text field
PromptEntries == SeqsUpTo({"a", "b", ",", ";", "\n", " "}, MaxEntryLen)

TypedValues == { <<" ">>, <<"i", "d">>, <<" ", "n", "e", "w", " ">> }

ConfigureAnswers ==
  [keepEnv : BOOLEAN, keep : BOOLEAN, appId : TypedValues, appSecret : TypedValues,
   probe : {"ok", "failed", "throws"}, resolved : BOOLEAN,
   domain : {"feishu", "lark"}, groupPolicy : {"allowlist", "open", "disabled"},
   groupEntry : { <<>>, <<",">>, <<"g", ";", "h">> }]

DmPolicies == {"pairing", "allowlist", "open", "disabled"}

\* the answers and configs of the runs of several editors in a row
EditEntries == { <<";">>, <<"a", ",", "*">> }

EditAnswers ==
  [keepEnv : BOOLEAN, keep : BOOLEAN, appId : {<<"n", "e", "w">>}, appSecret : {<<>>, <<"k">>},
   probe : {"failed"}, resolved : {TRUE},
   domain : {"lark"}, groupPolicy : {"allowlist", "disabled"}, groupEntry : {<<"g">>}]

EditConfigs ==
  { [gateway |-> "local", channels |-> Telegram] }
  \cup { [gateway |-> "local", channels |-> (CH :> c) @@ Telegram] : c \in FeishuChannels }

\* the wizard holds the input config and hands the config it has so far to
\* each editor
Onboarding(configs, envs, limit) ==
  /\ inv = [i \in Slots |-> Idle]
  /\ home = Undef
  /\ cred \in Credentials
  /\ rs = [phase |-> "off"]
  /\ reg = [pc |-> "off"]
  /\ \E cfg \in configs, env \in envs :
       ob = [pc |-> "idle", input |-> cfg, env |-> env, limit |-> limit, edits |-> 0,
             before |-> cfg, cfg |-> cfg, last |-> "none", args |-> EmptyObj,
             out |-> EmptyObj, tries |-> 0]

\* an editor returned cfg
Edited(name, args, cfg, out) ==
  [ob EXCEPT !.pc = "idle", !.edits = @ + 1, !.before = ob.cfg, !.cfg = cfg,
             !.last = name, !.args = args, !.out = out]

SetPolicy ==
  /\ ob.pc = "idle" /\ ob.edits < ob.limit
  /\ \E policy \in DmPolicies :
       ob' = Edited("setPolicy", [policy |-> policy], setFeishuDmPolicy(ob.cfg, policy), EmptyObj)
  /\ UNCHANGED <<inv, home, cred, rs, reg>>

Disable ==
  /\ ob.pc = "idle" /\ ob.edits < ob.limit
  /\ ob' = Edited("disable", EmptyObj, disable(ob.cfg), EmptyObj)
  /\ UNCHANGED <<inv, home, cred, rs, reg>>

Configure(answers) ==
  /\ ob.pc = "idle" /\ ob.edits < ob.limit
  /\ \E a \in answers :
       LET r == configure(ob.cfg, ob.env, a)
       IN  ob' = Edited("configure", a, r.cfg,
                        [path |-> r.path, probed |-> r.probed, notes |-> r.notes])
  /\ UNCHANGED <<inv, home, cred, rs, reg>>

\* promptFeishuAllowFrom is called: it shows its note and asks
PromptAllowFrom ==
  /\ ob.pc = "idle" /\ ob.edits < ob.limit
  /\ ob' = [ob EXCEPT !.pc = "prompting", !.before = ob.cfg, !.last = "promptAllowFrom",
                      !.args = EmptyObj, !.out = EmptyObj, !.tries = 0]
  /\ UNCHANGED <<inv, home, cred, rs, reg>>

\* the prompter hands back an entry
Answer(entries) ==
  /\ ob.pc = "prompting" /\ ob.tries < MaxTries
  /\ \E entry \in entries :
       LET r == promptFeishuAllowFrom(ob.before, entry)
       IN  ob' = IF r.returned
                 THEN [ob EXCEPT !.pc = "idle", !.edits = @ + 1, !.cfg = r.cfg,
                                 !.args = [entry |-> entry]]
                 ELSE [ob EXCEPT !.tries = @ + 1, !.args = [entry |-> entry],
                                 !.out = [note |-> r.note]]
  /\ UNCHANGED <<inv, home, cred, rs, reg>>

SpecPrompt ==
  Onboarding(OnboardConfigs, {EmptyObj}, 1) /\ [][PromptAllowFrom \/ Answer(PromptEntries)]_vars

SpecConfigure ==
  Onboarding(OnboardConfigs, Envs, 1) /\ [][Configure(ConfigureAnswers)]_vars

NextEdit ==
  \/ SetPolicy
  \/ PromptAllowFrom
  \/ Answer(EditEntries)
  \/ Disable
  \/ Configure(EditAnswers)

SpecEdit == Onboarding(EditConfigs, Envs, MaxEdits) /\ [][NextEdit]_vars

(***************************************************************************)
(* Properties.                                                             *)
(***************************************************************************)
UploadTools == {"feishu_upload_image", "feishu_upload_file"}
DownloadTools == {"feishu_download_image", "feishu_download_file"}

Active(i) == inv[i].pc # "idle"
Done(i) == inv[i].pc = "done"

IsFailure(e) == "error" \in DOMAIN e
IsSuccess(e) == "details" \in DOMAIN e

SummaryText(e) == e.content[1].text

\* the message errResult is expected to report for a thrown value
MessageOf(err) == IF err.t = "Error" THEN err.message ELSE JsString(err)

\* C1: every envelope returned by any of the six operations has exactly one
\* of the fields details and error, never both and never neither.
C1_ExactlyOneShape ==
  \A i \in Slots :
    Done(i) => /\ "content" \in DOMAIN inv[i].result
               /\ Cardinality(DOMAIN inv[i].result \cap {"details", "error"}) = 1

\* a failure envelope of a rejected remote call and nothing else in it
C1_Witness ==
  \E i \in Slots :
    /\ Done(i)
    /\ inv[i].settled.kind = "rejected"
    /\ DOMAIN inv[i].result = {"content", "error"}

\* C2: no exception leaves a handler: whatever the fields of the parameters,
\* the answer of the existence probe and the outcome of the remote call, an
\* invocation that has ended has returned an envelope.
C2_NoExceptionEscapes ==
  \A i \in Slots :
    /\ inv[i].pc # "threw"
    /\ (Active(i) /\ inv[i].pc # "awaiting") => Done(i) /\ "content" \in DOMAIN inv[i].result

\* the file was there at the probe and gone at the read: a failure envelope
C2_Witness ==
  \E i \in Slots :
    /\ Done(i)
    /\ inv[i].tool \in UploadTools
    /\ inv[i].probes # <<>> /\ inv[i].probes[1].exists
    /\ inv[i].settled = Rejected(Error("ENOENT: no such file or directory"))
    /\ IsFailure(inv[i].result)

PathMissing(i) == inv[i].tool \in UploadTools /\ ~Truthy(inv[i].params.path)

\* C3 as stated: an upload without path fails with the error message
\* "'path' is required", with no file-system call and no remote call.
C3_Original ==
  \A i \in Slots :
    (Active(i) /\ PathMissing(i)) =>
      /\ Done(i)
      /\ IsFailure(inv[i].result)
      /\ inv[i].result.error = "'path' is required"
      /\ inv[i].probes = <<>>
      /\ inv[i].calls = <<>>

\* C3 as amended: an upload without path fails with the fixed text of its
\* definition ("'path' is required" in the first definition of the tools,
\* "Missing required parameter" in the second), with no file-system call
\* and no remote call.
C3_MissingPathFixedText ==
  \A i \in Slots :
    (Active(i) /\ PathMissing(i)) =>
      /\ Done(i)
      /\ DOMAIN inv[i].result = {"content", "error"}
      /\ inv[i].result.error =
           (IF inv[i].def = 1 THEN "'path' is required" ELSE "Missing required parameter")
      /\ inv[i].probes = <<>>
      /\ inv[i].calls = <<>>

C3_Witness ==
  \E i \in Slots :
    /\ Done(i)
    /\ inv[i].tool = "feishu_upload_file"
    /\ inv[i].params.path = Undef
    /\ inv[i].def = 2
    /\ inv[i].result.error = "Missing required parameter"

\* a mandatory identifying field of the tool is absent
MandatoryAbsent(i) ==
  LET p == inv[i].params
      tool == inv[i].tool
  IN CASE tool \in UploadTools -> ~Truthy(p.path)
       [] tool = "feishu_download_image" -> ~Truthy(p.imageKey)
       [] tool = "feishu_download_file" -> ~Truthy(p.messageId) \/ ~Truthy(p.fileKey)
       [] tool = "feishu_send_image" -> ~Truthy(p.to) \/ ~Truthy(p.imageKey)
       [] tool = "feishu_send_file" -> ~Truthy(p.to) \/ ~Truthy(p.fileKey)
       [] OTHER -> FALSE

\* C4 as stated: each of the six entry points returns a failure envelope,
\* without probing the file system or calling the Transfer Client, when a
\* mandatory identifying field is absent.
C4_Original ==
  \A i \in Slots :
    (Active(i) /\ MandatoryAbsent(i)) =>
      /\ Done(i)
      /\ IsFailure(inv[i].result)
      /\ inv[i].probes = <<>>
      /\ inv[i].calls = <<>>

\* C5 as stated: every failure envelope has content[0].text equal to
\* "Error: " followed by its error field, and error is the message of the
\* failure that was raised.
C5_Original ==
  \A i \in Slots :
    (Done(i) /\ IsFailure(inv[i].result)) =>
      /\ SummaryText(inv[i].result) = "Error: " \o inv[i].result.error
      /\ inv[i].settled.kind = "rejected" =>
           inv[i].result.error = MessageOf(inv[i].settled.err)

HomeText == Coalesce(home, Str(<<>>)).v

EndsWith(s, t) == Len(t) <= Len(s) /\ SubSeq(s, Len(s) - Len(t) + 1, Len(s)) = t

Resolved == rs.phase \in {"resolved", "again"}

\* C6 as stated: for a path that begins with ~ the resolved path contains no
\* ~ anywhere, and resolving it again leaves it unchanged.
C6_Original ==
  (Resolved /\ StartsWith(rs.path, "~")) =>
    /\ ~Contains(rs.out, "~")
    /\ rs.phase = "again" => rs.out2 = rs.out

\* C6 as amended: for a path that begins with ~ only that first ~ is
\* replaced: the rest of the path is kept as it is at the end of the output,
\* in front of it stands the home value (when that has no $, which
\* String.replace expands), and when neither the rest of the path nor the
\* home value has a ~ (and the home value no $) the output has no ~ and
\* resolving it again leaves it unchanged.
C6_OnlyLeadingTildeReplaced ==
  (Resolved /\ StartsWith(rs.path, "~")) =>
    /\ EndsWith(rs.out, Tail(rs.path))
    /\ ~Contains(HomeText, "$") => rs.out = HomeText \o Tail(rs.path)
    /\ (~Contains(Tail(rs.path), "~") /\ ~Contains(HomeText, "~") /\ ~Contains(HomeText, "$")) =>
         /\ ~Contains(rs.out, "~")
         /\ rs.phase = "again" => rs.out2 = rs.out

C6_Witness ==
  /\ rs.phase = "again"
  /\ StartsWith(rs.path, "~")
  /\ Len(rs.path) > 1
  /\ HomeText # <<>>
  /\ ~Contains(rs.out, "~")
  /\ rs.out2 = rs.out

NotFoundPrefix(tool) ==
  IF tool = "feishu_upload_image" THEN "Image file not found: " ELSE "File not found: "

\* the path after ~ expansion, for a home value without $
Expanded(p) == IF StartsWith(p, "~") THEN HomeText \o Tail(p) ELSE p

\* C7: in upload_image and upload_file, when the resolved path does not
\* exist the failure message carries the resolved path (after ~ expansion)
\* and the upload primitive is not invoked; the upload primitive is invoked
\* only after the existence probe has succeeded, and on the probed path.
C7_NotFoundCarriesResolvedPath ==
  \A i \in Slots :
    (Active(i) /\ inv[i].tool \in UploadTools) =>
      /\ (inv[i].probes # <<>> /\ ~inv[i].probes[1].exists) =>
           /\ Done(i)
           /\ IsFailure(inv[i].result)
           /\ inv[i].result.error =
                NotFoundPrefix(inv[i].tool) \o ToStr(Expanded(inv[i].params.path.v))
           /\ inv[i].calls = <<>>
      /\ inv[i].calls # <<>> =>
           /\ Len(inv[i].probes) = 1
           /\ inv[i].probes[1].exists
           /\ inv[i].probes[1].path = Expanded(inv[i].params.path.v)
           /\ inv[i].calls[1].fn \in {"uploadImageFeishu", "uploadFileFeishu"}

C7_Witness ==
  \E i \in Slots :
    /\ Done(i)
    /\ inv[i].tool = "feishu_upload_file"
    /\ inv[i].params.path = Str(<<"~", "/", "a", ".", "P", "D", "F">>)
    /\ home # Undef
    /\ inv[i].probes # <<>> /\ ~inv[i].probes[1].exists
    /\ inv[i].result.error = "File not found: /home/u/a.PDF"
    /\ inv[i].calls = <<>>

ReportPdf == <<"/", "t", "m", "p", "/", "r", "e", "p", "o", "r", "t", ".", "p", "d", "f">>

\* C8: in upload_file a fileType the caller supplies is the fileType the
\* Transfer Client is invoked with; when the caller supplies none (absent or
\* empty) it is the Type Classifier's tag of the file name, which is the
\* fileName override if given and the base name of the resolved path
\* otherwise; /tmp/report.pdf with no fileType gives "pdf".
C8_ExplicitTypeOverridesInference ==
  \A i \in Slots :
    (Active(i) /\ inv[i].tool = "feishu_upload_file" /\ inv[i].calls # <<>>) =>
      LET p == inv[i].params
          c == inv[i].calls[1]
          name == IF Truthy(p.fileName) THEN p.fileName.v ELSE Basename(c.file.v)
      IN /\ c.fileName = Str(name)
         /\ Truthy(p.fileType) => c.fileType = p.fileType
         /\ ~Truthy(p.fileType) => c.fileType = Str(detectFileType(name))
         /\ (p.path = Str(ReportPdf) /\ ~Truthy(p.fileName) /\ ~Truthy(p.fileType)) =>
              c.fileType = Str(<<"p", "d", "f">>)

\* the caller's fileType wins over a file name the classifier would tag
C8_Witness ==
  \E i \in Slots :
    /\ inv[i].pc = "awaiting"
    /\ inv[i].tool = "feishu_upload_file"
    /\ inv[i].params.path = Str(ReportPdf)
    /\ inv[i].params.fileName = Undef
    /\ inv[i].params.fileType = Str(<<"s", "t", "r", "e", "a", "m">>)
    /\ inv[i].calls[1].fileType = Str(<<"s", "t", "r", "e", "a", "m">>)

\* index in s of the first occurrence of the text m, 0 when there is none
Find(s, m) ==
  LET at == {k \in 1..(Len(s) - Len(m) + 1) : SubSeq(s, k, k + Len(m) - 1) = m}
  IN IF at = {} THEN 0 ELSE CHOOSE k \in at : \A j \in at : k <= j

\* the parts of a data URL: what stands between "data:" and ";base64,", and
\* what follows
UrlMime(url) == SubSeq(url, Len(DataPrefix) + 1, Find(url, Base64Marker) - 1)
UrlPayload(url) == SubSeq(url, Find(url, Base64Marker) + Len(Base64Marker), Len(url))

Downloaded(i) ==
  /\ Done(i)
  /\ inv[i].tool \in DownloadTools
  /\ inv[i].settled.kind = "fulfilled"

\* the summary text of a download of n bytes
DownloadSummary(tool, n, value) ==
  IF tool = "feishu_download_image"
  THEN "Downloaded image (" \o NumStr(n) \o " bytes, type: "
       \o (IF Truthy(value.contentType) THEN ToStr(value.contentType.v) ELSE "unknown") \o ")"
  ELSE "Downloaded file (" \o NumStr(n) \o " bytes, type: "
       \o (IF Truthy(value.contentType) THEN ToStr(value.contentType.v) ELSE "unknown")
       \o ", name: "
       \o (IF Truthy(value.fileName) THEN ToStr(value.fileName.v) ELSE "unknown") \o ")"

\* C9: for every download that succeeds, details.dataUrl has the form
\* data:<mime>;base64,<payload>, base64-decoding the payload gives back the
\* buffer the remote helper returned, byte for byte, and the byte count in
\* the summary text is the length of that buffer.
C9_DataUrlRoundTrip ==
  \A i \in Slots :
    Downloaded(i) =>
      LET url == inv[i].result.details.dataUrl
          buffer == inv[i].settled.value.buffer
          payload == UrlPayload(url)
      IN /\ IsSuccess(inv[i].result)
         /\ SubSeq(url, 1, Len(DataPrefix)) = DataPrefix
         /\ Find(url, Base64Marker) > Len(DataPrefix)
         /\ \A k \in 1..Len(payload) : IsBase64Char(payload[k]) \/ payload[k] = "="
         /\ Base64Decode(payload) = buffer
         /\ inv[i].result.details.buffer = buffer
         /\ SummaryText(inv[i].result) =
              DownloadSummary(inv[i].tool, Len(buffer), inv[i].settled.value)

\* the scenario: 17 bytes declared image/png
C9_Witness ==
  \E i \in Slots :
    /\ Downloaded(i)
    /\ inv[i].tool = "feishu_download_image"
    /\ inv[i].settled.value = [buffer |-> Buffer17, contentType |-> Str(ImagePng)]
    /\ SummaryText(inv[i].result) = "Downloaded image (17 bytes, type: image/png)"
    /\ inv[i].result.details.dataUrl =
         DataPrefix \o ImagePng \o Base64Marker
           \o <<"i", "V", "B", "O", "R", "w", "0", "K", "G", "g", "o", "A", "A", "A", "A", "N",
                "S", "U", "h", "E", "U", "v", "8", "=">>

\* C10: the MIME type in details.dataUrl is the content-type the remote
\* service declared when it declared one, and otherwise image/png for
\* download_image and application/octet-stream for download_file, whatever
\* the type argument of download_file.
C10_DeclaredTypeOrDefault ==
  \A i \in Slots :
    Downloaded(i) =>
      LET declared == inv[i].settled.value.contentType
          mime == UrlMime(inv[i].result.details.dataUrl)
      IN /\ Truthy(declared) => mime = declared.v
         /\ ~Truthy(declared) =>
              mime = (IF inv[i].tool = "feishu_download_image" THEN ImagePng ELSE OctetStream)

\* download_file of type image with no declared content-type
C10_Witness ==
  \E i \in Slots :
    /\ Downloaded(i)
    /\ inv[i].tool = "feishu_download_file"
    /\ inv[i].params.type = Str(<<"i", "m", "a", "g", "e">>)
    /\ inv[i].settled.value.contentType = Undef
    /\ UrlMime(inv[i].result.details.dataUrl) = OctetStream

\* C11: no operation retries: an invocation issues at most one remote call,
\* and once that call has failed the invocation has returned a failure
\* envelope and is suspended on no further call.
C11_NoRetry ==
  \A i \in Slots :
    Active(i) =>
      /\ Len(inv[i].calls) <= 1
      /\ inv[i].settled.kind # "pending" => inv[i].pc # "awaiting"
      /\ inv[i].settled.kind = "rejected" =>
           /\ Done(i)
           /\ IsFailure(inv[i].result)
           /\ Len(inv[i].calls) = 1

\* a send whose one remote call was rejected
C11_Witness ==
  \E i \in Slots :
    /\ Done(i)
    /\ inv[i].tool = "feishu_send_file"
    /\ inv[i].settled.kind = "rejected"
    /\ Len(inv[i].calls) = 1
    /\ IsFailure(inv[i].result)

\* C12 as stated: whenever upload_file invokes the Transfer Client, the
\* fileType it passes is one of opus, mp4, pdf, doc, xls, ppt, stream.
C12_Original ==
  \A i \in Slots :
    (Active(i) /\ inv[i].tool = "feishu_upload_file" /\ inv[i].calls # <<>>) =>
      /\ inv[i].calls[1].fileType.t = "string"
      /\ inv[i].calls[1].fileType.v \in FileTypeTags

\* the envelope of an invocation run on its own: execute on its parameters
\* and the answer to its probe, then its continuation on its own reply
Alone(r) ==
  LET exists == IF r.probes # <<>> THEN r.probes[1].exists ELSE FALSE
      first == Execute(r.def, r.tool, cred, r.params, home, exists)
      rest == Resume(r.tool, r.settled, first.probes)
  IN  CASE first.kind = "return" -> first.envelope
        [] first.kind = "await" /\ r.settled.kind # "pending" /\ rest.kind = "return" -> rest.envelope
        [] OTHER -> NoEnvelope

\* a step of one invocation leaves every other invocation, the Credential
\* Record and the environment as they were, and keeps its own inputs
OwnFrameOnly ==
  /\ cred' = cred
  /\ home' = home
  /\ \A i \in Slots :
       inv'[i] # inv[i] =>
         /\ \A j \in Slots \ {i} : inv'[j] = inv[j]
         /\ (inv[i].pc # "idle" /\ inv'[i].pc # "idle") =>
              /\ inv'[i].def = inv[i].def
              /\ inv'[i].tool = inv[i].tool
              /\ inv'[i].params = inv[i].params
              /\ inv'[i].probes = inv[i].probes

\* C13: with several invocations in flight, in every interleaving the
\* envelope of each invocation is the one it returns when run on its own
\* parameters, probe answer and remote reply; a step of one invocation
\* changes no other invocation, and the Credential Record never changes.
C13_EnvelopeFromOwnInputs ==
  /\ [](\A i \in Slots : Active(i) => inv[i].result = Alone(inv[i]))
  /\ [][OwnFrameOnly]_vars

\* the second invocation completed a download while the upload of the first
\* one is still pending
C13_Witness ==
  /\ inv[1].pc = "awaiting"
  /\ inv[1].tool = "feishu_upload_file"
  /\ Done(2)
  /\ inv[2].tool = "feishu_download_image"
  /\ inv[2].settled.kind = "fulfilled"
  /\ IsSuccess(inv[2].result)

\* C14: an invocation has no envelope while its remote call is pending, and
\* if every issued remote call eventually replies or throws, every started
\* invocation eventually returns one envelope.
C14_ReturnsOnceSettled ==
  /\ [](\A i \in Slots : /\ inv[i].pc = "awaiting" => inv[i].result = NoEnvelope
                         /\ inv[i].pc # "threw"
                         /\ Done(i) => (IsFailure(inv[i].result) \/ IsSuccess(inv[i].result)))
  /\ \A i \in Slots : (inv[i].pc = "awaiting") ~> Done(i)

\* both invocations returned after their remote calls threw
C14_Witness ==
  /\ \A i \in Slots : Done(i) /\ inv[i].settled.kind = "rejected" /\ IsFailure(inv[i].result)
  /\ inv[1].tool = "feishu_send_image"
  /\ inv[2].tool = "feishu_download_file"

\* the channel config has a non-empty string under the field
NonEmpty(feishuCfg, field) ==
  /\ feishuCfg # Undef
  /\ feishuCfg[field].t = "string"
  /\ feishuCfg[field].v # <<>>

\* C15: registerFeishuMediaTools registers no tool when the channel config
\* lacks a non-empty appId or appSecret or the resolved tools config has
\* media disabled, and otherwise exactly the six tools, each once.
C15_NoneOrAllSix ==
  reg.pc = "registered" =>
    LET feishuCfg == ChannelOf(reg.config, RegChannelKey(reg.def))
        tools == reg.out.tools
    IN  IF NonEmpty(feishuCfg, "appId") /\ NonEmpty(feishuCfg, "appSecret") /\ reg.toolsCfg.media
        THEN /\ Len(tools) = 6
             /\ { tools[k] : k \in 1..6 } =
                  { "feishu_upload_image", "feishu_upload_file", "feishu_download_image",
                    "feishu_download_file", "feishu_send_image", "feishu_send_file" }
        ELSE tools = <<>>

\* a registration of all six, and the channel key of the other definition
\* holds no config
C15_Witness ==
  /\ reg.pc = "registered"
  /\ Len(reg.out.tools) = 6
  /\ reg.def = 2
  /\ ChannelOf(reg.config, CH) = Undef

\* an object without one key, and an object cut down to some keys
Except(obj, key) == [k \in DOMAIN obj \ {key} |-> obj[k]]
Only(obj, keys) == [k \in DOMAIN obj \cap keys |-> obj[k]]

ChannelsOf(cfg) == Spread(Get(cfg, "channels"))
FeishuOf(cfg) == Spread(Get(ChannelsOf(cfg), CH))

Range(list) == { list[k] : k \in 1..Len(list) }

\* the allowFrom of a config as a list of strings, empty when absent
AllowFromOf(cfg) ==
  IF "allowFrom" \in DOMAIN FeishuOf(cfg) THEN Strings(FeishuOf(cfg)["allowFrom"]) ELSE <<>>

\* the ids of an entry: its maximal stretches free of newline, comma and
\* semicolon, trimmed, the empty ones dropped
IdsOf(entry) ==
  LET Sep(k) == entry[k] \in {"\n", ",", ";"}
      Stretch(i, j) == /\ \A k \in i..j : ~Sep(k)
                       /\ i = 1 \/ Sep(i - 1)
                       /\ j = Len(entry) \/ Sep(j + 1)
  IN  { Trim(SubSeq(entry, i, j)) : <<i, j>> \in { ij \in (1..Len(entry)) \X (1..Len(entry)) :
                                                   ij[1] <= ij[2] /\ Stretch(ij[1], ij[2]) } }
      \ { <<>> }

\* everything of the config apart from one key of the feishu-new channel
ApartFrom(cfg, key) ==
  << Except(cfg, "channels"), Except(ChannelsOf(cfg), CH), Except(FeishuOf(cfg), key) >>

\* C16: promptFeishuAllowFrom asks again after every entry that holds no id
\* and returns on the first entry that holds one; the allowFrom it returns
\* is non-empty, free of duplicates, holds every non-empty trimmed earlier
\* entry and every id of the accepted entry, and the rest of the config is
\* as it was.
C16_PromptUntilParsed ==
  (ob.last = "promptAllowFrom" /\ "entry" \in DOMAIN ob.args) =>
    /\ ob.pc = "prompting" <=> IdsOf(ob.args.entry) = {}
    /\ ob.pc = "prompting" => ob.cfg = ob.before /\ ob.tries > 0
    /\ ob.pc = "idle" =>
         LET allowFrom == AllowFromOf(ob.cfg)
         IN  /\ Len(allowFrom) > 0
             /\ Cardinality(Range(allowFrom)) = Len(allowFrom)
             /\ \A e \in Range(AllowFromOf(ob.before)) :
                  Trim(e) # <<>> => Trim(e) \in Range(allowFrom)
             /\ IdsOf(ob.args.entry) \subseteq Range(allowFrom)
             /\ ApartFrom(ob.cfg, "allowFrom") = ApartFrom(ob.before, "allowFrom")
             /\ "channels" \in DOMAIN ob.cfg /\ CH \in DOMAIN ob.cfg.channels

\* the second entry was accepted: it repeats an earlier id after trimming
\* and brings a new one
C16_Witness ==
  /\ ob.last = "promptAllowFrom" /\ ob.pc = "idle" /\ ob.tries = 1
  /\ ob.args.entry = <<"a", ";", "b">>
  /\ AllowFromOf(ob.before) = << <<" ", "a">>, <<"a">>, <<"7">> >>
  /\ AllowFromOf(ob.cfg) = << <<"a">>, <<"7">>, <<"b">> >>

\* the appId and appSecret of the feishu-new channel, where present
CredsOf(cfg) == Only(FeishuOf(cfg), {"appId", "appSecret"})

\* C17: configure changes appId or appSecret only when the user typed both
\* values in this run; when the user keeps the configured credentials or
\* uses the environment variables both are left as they were and the probe
\* is not run, and on the environment path the channel is enabled.
C17_CredentialsOnlyWhenTyped ==
  ob.last = "configure" =>
    /\ CredsOf(ob.cfg) # CredsOf(ob.before) =>
         /\ ob.out.path = "typed"
         /\ Trim(ob.args.appId) # <<>> /\ Trim(ob.args.appSecret) # <<>>
         /\ CredsOf(ob.cfg) = [appId |-> Trim(ob.args.appId), appSecret |-> Trim(ob.args.appSecret)]
    /\ ob.out.path \in {"keep", "env"} =>
         /\ CredsOf(ob.cfg) = CredsOf(ob.before)
         /\ ob.out.probed = <<>>
    /\ ob.out.path = "keep" <=>
         (HasText(FeishuOf(ob.before), "appId") /\ HasText(FeishuOf(ob.before), "appSecret")
          /\ ob.args.keep)
    /\ ob.out.path = "env" <=>
         (~(HasText(FeishuOf(ob.before), "appId") /\ HasText(FeishuOf(ob.before), "appSecret"))
          /\ HasText(ob.env, "FEISHU_APP_ID") /\ HasText(ob.env, "FEISHU_APP_SECRET")
          /\ ob.args.keepEnv)
    /\ ob.out.path = "env" => FeishuOf(ob.cfg)["enabled"] = TRUE

\* the environment variables were used on a config that holds a blank appId
C17_Witness ==
  /\ ob.last = "configure" /\ ob.out.path = "env"
  /\ CredsOf(ob.before) = [appId |-> <<" ">>, appSecret |-> <<"s">>]
  /\ CredsOf(ob.cfg) = CredsOf(ob.before)
  /\ FeishuOf(ob.cfg)["enabled"] = TRUE
  /\ ob.out.probed = <<>>

\* what every editor keeps, in terms of the config the wizard started from
\* and the config the last editor was given
EditorsFrame ==
  ob.pc # "off" =>
    /\ Except(ob.cfg, "channels") = Except(ob.input, "channels")
    /\ Except(ChannelsOf(ob.cfg), CH) = Except(ChannelsOf(ob.input), CH)
    /\ (ob.last = "setPolicy" /\ ob.args.policy # "open") =>
         /\ ApartFrom(ob.cfg, "dmPolicy") = ApartFrom(ob.before, "dmPolicy")
         /\ FeishuOf(ob.cfg)["dmPolicy"] = ob.args.policy
    /\ ob.last = "disable" =>
         /\ ApartFrom(ob.cfg, "enabled") = ApartFrom(ob.before, "enabled")
         /\ FeishuOf(ob.cfg)["enabled"] = FALSE

\* C18: after any sequence of the config editors every channel other than
\* feishu-new and every top-level key other than channels is as in the
\* input config, and the input config itself stays as it was; setPolicy
\* with a policy other than "open" leaves allowFrom as it was, and disable
\* changes only enabled, to false.
C18_EditorsFrame ==
  /\ []EditorsFrame
  /\ [][ob.pc # "off" => ob'.input = ob.input]_vars

\* the wildcard added by "open" is still there after a later "pairing"
C18_Witness ==
  /\ ob.pc = "idle" /\ ob.edits = 2
  /\ ob.last = "setPolicy" /\ ob.args.policy = "pairing"
  /\ <<"*">> \in Range(AllowFromOf(ob.cfg))
  /\ <<"*">> \notin Range(AllowFromOf(ob.input))
  /\ "telegram" \in DOMAIN ChannelsOf(ob.cfg)
=============================================================================
